---- MODULE Spec2Model ----
(***************************************************************************)
(* Model of gcloud_data_analysis_functions.py: five functions that fetch a *)
(* remote artifact (Google Sheets, Google Drive, Cloud Storage) and decode *)
(* it by a caller-supplied format tag.                                     *)
(*                                                                         *)
(* One call is a short state machine:                                      *)
(*   idle --Call_*--> retrieve --(HttpGet|DriveFetch|SheetsFetch|          *)
(*   StorageFetch)--> decode --Decode_*--> done --Return--> idle           *)
(* A raise at any step ends the call in "done" with result.kind = "raise". *)
(*                                                                         *)
(* Strings the code inspects (URLs) are sequences of one-character         *)
(* strings; payloads are sequences of byte values; decoded text is a       *)
(* sequence of code points.  Keyword options (kwargs) are sets of          *)
(* <<key, value>> pairs with distinct keys.                                *)
(***************************************************************************)
EXTENDS Integers, Sequences, FiniteSets, TLC

VARIABLES
    pc,           \* "idle" | "retrieve" | "decode" | "done"
    fn,           \* the function being called
    file_url,     \* file_url / sheet_url argument (file_name for Cloud Storage)
    file_format,  \* file_format argument
    kwargs,       \* **kwargs of the call
    worksheet,    \* worksheet argument of read_private_sheets
    resource,     \* what the retrieval step addresses: the URL or an ID
    response,     \* what the retrieval step obtained
    parser,       \* the parser call made by the decode step
    result,       \* the value returned, or the exception raised
    retrievals,   \* number of retrieval attempts in this call
    decodes,      \* number of parser calls in this call
    tagExamined   \* TRUE once the if/elif chain on file_format is entered

vars == <<pc, fn, file_url, file_format, kwargs, worksheet, resource, response,
          parser, result, retrievals, decodes, tagExamined>>

----------------------------------------------------------------------------
(* Bounds *)

MaxUrlLen == 2
MaxPayloadLen == 1
MaxSheets == 2
MaxRows == 2

----------------------------------------------------------------------------
(* Input domains *)

SeqsUpTo(S, n) == UNION {[1..k -> S] : k \in 0..n}

\* "https://docs.google.com/spreadsheets/d/ABC123/edit#gid=0"
ExampleUrl ==
    <<"h","t","t","p","s",":","/","/","d","o","c","s",".","g","o","o","g","l",
      "e",".","c","o","m","/","s","p","r","e","a","d","s","h","e","e","t","s",
      "/","d","/","A","B","C","1","2","3","/","e","d","i","t","#","g","i","d",
      "=","0">>

ExampleId == <<"A","B","C","1","2","3">>

Urls == SeqsUpTo({"/", "a"}, MaxUrlLen) \cup {ExampleUrl}

FileNames == {<<"a">>}

\* 65 is an ASCII byte, 255 is a byte that is never valid in UTF-8.
Payloads == SeqsUpTo({65, 255}, MaxPayloadLen)

Formats == {"csv", "xlsx", "parquet", "json", "txt", "yaml"}

OptionPairs == {<<"encoding", "latin-1">>, <<"errors", "ignore">>,
                <<"errors", "replace">>, <<"sep", ";">>}

Kwargs == {kw \in SUBSET OptionPairs :
              \A p \in kw, q \in kw : p[1] = q[1] => p = q}

Keys(kw) == {p[1] : p \in kw}

Get(kw, key, default) ==
    IF key \in Keys(kw) THEN (CHOOSE p \in kw : p[1] = key)[2] ELSE default

\* worksheet argument: an index, or the title of the i-th worksheet (0-based)
WorksheetArgs == [type : {"index", "name"}, i : 0..MaxSheets]

SheetRows == SeqsUpTo({<<1, 2>>, <<3, 4>>}, MaxRows)

Functions == {"read_public_sheets", "read_public_file_from_gdrive",
              "read_private_sheets", "read_private_file_from_gdrive",
              "read_file_from_gcloud_storage"}

Dispatching == {"read_public_file_from_gdrive", "read_private_file_from_gdrive",
                "read_file_from_gcloud_storage"}

----------------------------------------------------------------------------
(* Values *)

NoResource == [by |-> "none", key |-> <<>>]
NoResponse == [status |-> "none", body |-> <<>>, encoding |-> "none",
               wellformed |-> FALSE, nsheets |-> 0, selected |-> 0,
               rows |-> <<>>]
NoParser   == [name |-> "none", form |-> "none", data |-> <<>>, options |-> {}]
Pending    == [kind |-> "pending", exc |-> "", val |-> <<>>,
               columns |-> <<>>, rows |-> <<>>]
None       == [Pending EXCEPT !.kind = "None"]
Raise(e)   == [Pending EXCEPT !.kind = "raise", !.exc = e]
Frame(d)   == [Pending EXCEPT !.kind = "frame", !.val = d]
Mapping(d) == [Pending EXCEPT !.kind = "mapping", !.val = d]
Str(t)     == [Pending EXCEPT !.kind = "str", !.val = t]
NoWorksheet == [type |-> "index", i |-> 0]

----------------------------------------------------------------------------
(* str.split("/") and the [-2] index *)

RECURSIVE SplitFrom(_, _, _)
SplitFrom(s, i, cur) ==
    IF i > Len(s) THEN <<cur>>
    ELSE IF s[i] = "/" THEN <<cur>> \o SplitFrom(s, i + 1, <<>>)
    ELSE SplitFrom(s, i + 1, Append(cur, s[i]))

\* s.split("/"): always at least one segment, one more than the number of "/"
Split(s) == SplitFrom(s, 1, <<>>)

\* a plausible slip: [-1] instead of [-2]
FileId_last(url) ==
    LET parts == Split(url)
    IN  [ok |-> Len(parts) >= 1, id |-> parts[Len(parts)]]

\* url.split("/")[-2]; IndexError when there are fewer than two segments
FileId(url) ==
    LET parts == Split(url)
    IN  IF Len(parts) < 2 THEN [ok |-> FALSE, id |-> <<>>]
        ELSE [ok |-> TRUE, id |-> parts[Len(parts) - 1]]

----------------------------------------------------------------------------
(* bytes -> str *)

RECURSIVE DecodeFrom(_, _, _, _)
DecodeFrom(b, i, encoding, errors) ==
    IF i > Len(b) THEN [ok |-> TRUE, text |-> <<>>]
    ELSE LET rest == DecodeFrom(b, i + 1, encoding, errors)
         IN  IF encoding = "latin-1" \/ b[i] < 128
             THEN [ok |-> rest.ok, text |-> <<b[i]>> \o rest.text]
             ELSE IF errors = "ignore" THEN rest
             ELSE IF errors = "replace"
             THEN [ok |-> rest.ok, text |-> <<65533>> \o rest.text]
             ELSE [ok |-> FALSE, text |-> <<>>]

\* bytes.decode(encoding, errors): latin-1 maps every byte to its code point;
\* utf-8 keeps ASCII and treats a byte >= 128 by the error policy
\* (strict: UnicodeDecodeError, ignore: dropped, replace: U+FFFD).
Decode(b, encoding, errors) == DecodeFrom(b, 1, encoding, errors)

\* requests' Response.text: str(content, encoding, errors="replace")
ResponseText(resp) == Decode(resp.body, resp.encoding, "replace").text

\* byte_stream.decode("utf-8", **kwargs): the encoding is already given
\* positionally, so an 'encoding' keyword is a TypeError, as is any keyword
\* other than 'errors'.
BytesDecode(b, kw) ==
    IF ~(Keys(kw) \subseteq {"errors"}) THEN Raise("TypeError")
    ELSE LET d == Decode(b, "utf-8", Get(kw, "errors", "strict"))
         IN  IF d.ok THEN Str(d.text) ELSE Raise("UnicodeDecodeError")

----------------------------------------------------------------------------
(* The parsers the decode step delegates to.  A parser call is               *)
(* [name, form, data, options]: form says whether the parser was handed the *)
(* original bytes or decoded text.  Whether the content is a well-formed    *)
(* document of the requested format is the remote side's (response.         *)
(* wellformed).                                                             *)

ParserCall(name, form, data, options) ==
    [name |-> name, form |-> form, data |-> data, options |-> options]

\* keyword options each parser takes, among the ones the model draws
Accepted(name) ==
    IF name = "pd.read_csv" THEN {"sep", "encoding"} ELSE {}

\* bytes handed to a text parser are decoded by it (utf-8 unless an encoding
\* option says otherwise), strictly
ParserReadable(call) ==
    \/ call.form = "text"
    \/ call.name \in {"pd.read_excel", "pd.read_parquet"}
    \/ Decode(call.data, Get(call.options, "encoding", "utf-8"), "strict").ok

Parse(call, wellformed) ==
    IF ~(Keys(call.options) \subseteq Accepted(call.name)) THEN Raise("TypeError")
    ELSE IF call.name \in {"pd.read_excel", "pd.read_parquet"} /\ call.form # "bytes"
    THEN Raise("AssertionError")
    ELSE IF ~ParserReadable(call) THEN Raise("UnicodeDecodeError")
    ELSE IF ~wellformed THEN Raise("ParserError")
    ELSE IF call.name \in {"json.load", "json_util.loads"} THEN Mapping(call.data)
    ELSE Frame(call.data)

----------------------------------------------------------------------------
(* The if/elif chains on file_format.  Each gives the parser call made (if *)
(* any), the value returned or exception raised, and the number of parser  *)
(* calls.  Falling off the end of the chain returns None.                  *)

Out(call, res, n) == [parser |-> call, result |-> res, decodes |-> n]

Run(call, wellformed) == Out(call, Parse(call, wellformed), 1)

\* read_public_file_from_gdrive: every branch reads StringIO(response.text)
Dispatch_read_public_file_from_gdrive(fmt, resp, kw) ==
    LET text == ResponseText(resp)
    IN  CASE fmt = "csv"  -> Run(ParserCall("pd.read_csv", "text", text, kw),
                                 resp.wellformed)
          [] fmt = "xlsx" -> Run(ParserCall("pd.read_excel", "text", text, kw),
                                 resp.wellformed)
          [] fmt = "json" -> Run(ParserCall("json.load", "text", text, {}),
                                 resp.wellformed)
          [] OTHER        -> Out(NoParser, None, 0)

\* read_private_file_from_gdrive: content_io_buffer.read() gives the bytes;
\* csv and json decode them (strict utf-8) before parsing
Dispatch_read_private_file_from_gdrive(fmt, resp, kw) ==
    LET d == Decode(resp.body, "utf-8", "strict")
    IN  CASE fmt = "csv"  ->
               IF ~d.ok THEN Out(NoParser, Raise("UnicodeDecodeError"), 0)
               ELSE Run(ParserCall("pd.read_csv", "text", d.text, kw),
                        resp.wellformed)
          [] fmt = "xlsx" ->
               Run(ParserCall("pd.read_excel", "bytes", resp.body, kw),
                   resp.wellformed)
          [] fmt = "parquet" ->
               Run(ParserCall("pd.read_parquet", "bytes", resp.body, kw),
                   resp.wellformed)
          [] fmt = "json" ->
               IF ~d.ok THEN Out(NoParser, Raise("UnicodeDecodeError"), 0)
               ELSE Run(ParserCall("json.load", "text", d.text, {}),
                        resp.wellformed)
          [] fmt = "txt"  ->
               Out(ParserCall("bytes.decode", "bytes", resp.body, kw),
                   BytesDecode(resp.body, kw), 1)
          [] OTHER        -> Out(NoParser, None, 0)

\* a plausible slip: a final else that raises on an unknown tag
Dispatch_gcloud_strict(fmt, resp, kw) ==
    CASE fmt = "csv" ->
           Run(ParserCall("pd.read_csv", "bytes", resp.body, kw), resp.wellformed)
      [] fmt = "parquet" ->
           Run(ParserCall("pd.read_parquet", "bytes", resp.body, kw),
               resp.wellformed)
      [] fmt = "json" ->
           Run(ParserCall("json_util.loads", "bytes", resp.body, kw),
               resp.wellformed)
      [] fmt = "txt" ->
           Out(ParserCall("bytes.decode", "bytes", resp.body, kw),
               BytesDecode(resp.body, kw), 1)
      [] OTHER -> Out(NoParser, Raise("ValueError"), 0)

\* read_file_from_gcloud_storage: every branch reads binary_stream; there is
\* no xlsx branch
Dispatch_read_file_from_gcloud_storage(fmt, resp, kw) ==
    CASE fmt = "csv" ->
           Run(ParserCall("pd.read_csv", "bytes", resp.body, kw), resp.wellformed)
      [] fmt = "parquet" ->
           Run(ParserCall("pd.read_parquet", "bytes", resp.body, kw),
               resp.wellformed)
      [] fmt = "json" ->
           Run(ParserCall("json_util.loads", "bytes", resp.body, kw),
               resp.wellformed)
      [] fmt = "txt" ->
           Out(ParserCall("bytes.decode", "bytes", resp.body, kw),
               BytesDecode(resp.body, kw), 1)
      [] OTHER -> Out(NoParser, None, 0)

\* the tags each chain has a branch for
Branches(f) ==
    CASE f = "read_public_file_from_gdrive"  -> {"csv", "xlsx", "json"}
      [] f = "read_private_file_from_gdrive" ->
           {"csv", "xlsx", "parquet", "json", "txt"}
      [] f = "read_file_from_gcloud_storage" -> {"csv", "parquet", "json", "txt"}
      [] OTHER -> {}

\* sheet.get_worksheet(worksheet) on a spreadsheet of n worksheets: the
\* argument indexes the list of sheets, so a name is a TypeError and an index
\* past the end finds no worksheet
GetWorksheet(arg, n) ==
    IF arg.type = "name" THEN [ok |-> FALSE, exc |-> "TypeError", index |-> 0]
    ELSE IF arg.i >= n
    THEN [ok |-> FALSE, exc |-> "WorksheetNotFound", index |-> 0]
    ELSE [ok |-> TRUE, exc |-> "", index |-> arg.i]

\* pd.DataFrame(list_rows_worksheet[1:], columns=list_rows_worksheet[0])
RowsToFrame(rows) ==
    IF rows = <<>> THEN Raise("IndexError")
    ELSE [Pending EXCEPT !.kind = "frame", !.columns = rows[1],
                         !.rows = Tail(rows)]

----------------------------------------------------------------------------
(* State machine *)

Init ==
    /\ pc = "idle"
    /\ fn = "none"
    /\ file_url = <<>>
    /\ file_format = "none"
    /\ kwargs = {}
    /\ worksheet = NoWorksheet
    /\ resource = NoResource
    /\ response = NoResponse
    /\ parser = NoParser
    /\ result = Pending
    /\ retrievals = 0
    /\ decodes = 0
    /\ tagExamined = FALSE

\* entry of a call whose first statements cannot raise
Enter(f, url, fmt, kw, ws, res) ==
    /\ pc = "idle"
    /\ fn' = f
    /\ file_url' = url
    /\ file_format' = fmt
    /\ kwargs' = kw
    /\ worksheet' = ws
    /\ resource' = res
    /\ pc' = "retrieve"
    /\ UNCHANGED <<response, parser, result, retrievals, decodes, tagExamined>>

\* entry of a call that first takes url.split("/")[-2]
EnterById(f, url, fmt, kw, ws) ==
    LET id == FileId(url)
    IN  /\ pc = "idle"
        /\ fn' = f
        /\ file_url' = url
        /\ file_format' = fmt
        /\ kwargs' = kw
        /\ worksheet' = ws
        /\ IF id.ok
           THEN /\ resource' = [by |-> "id", key |-> id.id]
                /\ pc' = "retrieve"
                /\ UNCHANGED result
           ELSE /\ resource' = NoResource
                /\ pc' = "done"
                /\ result' = Raise("IndexError")
        /\ UNCHANGED <<response, parser, retrievals, decodes, tagExamined>>

\* requests.get(file_url): the caller's URL is requested as given
Call_read_public_sheets ==
    \E url \in Urls :
        Enter("read_public_sheets", url, "none", {}, NoWorksheet,
              [by |-> "url", key |-> url])

\* download_url = "https://drive.google.com/uc?export=download&id=" + id
Call_read_public_file_from_gdrive ==
    \E url \in Urls, fmt \in Formats, kw \in Kwargs :
        EnterById("read_public_file_from_gdrive", url, fmt, kw, NoWorksheet)

Call_read_private_sheets ==
    \E url \in Urls, ws \in WorksheetArgs :
        EnterById("read_private_sheets", url, "none", {}, ws)

Call_read_private_file_from_gdrive ==
    \E url \in Urls, fmt \in Formats, kw \in Kwargs :
        EnterById("read_private_file_from_gdrive", url, fmt, kw, NoWorksheet)

\* the blob is addressed by bucket and file_name; no URL is parsed
Call_read_file_from_gcloud_storage ==
    \E name \in FileNames, fmt \in Formats, kw \in Kwargs :
        Enter("read_file_from_gcloud_storage", name, fmt, kw, NoWorksheet,
              [by |-> "name", key |-> name])

\* no try/except and no loop surrounds a retrieval: what a collaborator
\* raises ends the call
Failed(resp, exc) ==
    /\ response' = resp
    /\ pc' = "done"
    /\ result' = Raise(exc)

Retrieved(resp) ==
    /\ response' = resp
    /\ pc' = "decode"
    /\ UNCHANGED result

\* requests.get(...): raises only when no response arrives; a response with
\* an HTTP error status is returned like any other (raise_for_status is
\* never called)
HttpGet ==
    /\ pc = "retrieve"
    /\ fn \in {"read_public_sheets", "read_public_file_from_gdrive"}
    /\ retrievals' = retrievals + 1
    /\ \E status \in {"ok", "http_error", "unreachable"}, body \in Payloads,
          enc \in {"utf-8", "latin-1"}, wf \in BOOLEAN :
          IF status = "unreachable"
          THEN Failed([NoResponse EXCEPT !.status = status], "ConnectionError")
          ELSE Retrieved([NoResponse EXCEPT !.status = status, !.body = body,
                                            !.encoding = enc, !.wellformed = wf])
    /\ UNCHANGED <<fn, file_url, file_format, kwargs, worksheet, resource,
                   parser, decodes, tagExamined>>

\* GoogleDrive(google_auth).CreateFile({"id": file_id}).GetContentIOBuffer():
\* the buffer is filled when it is created, so a rejected or failed request
\* raises here
DriveFetch ==
    /\ pc = "retrieve"
    /\ fn = "read_private_file_from_gdrive"
    /\ retrievals' = retrievals + 1
    /\ \E status \in {"ok", "rejected"}, body \in Payloads, wf \in BOOLEAN :
          IF status = "rejected"
          THEN Failed([NoResponse EXCEPT !.status = status], "ApiRequestError")
          ELSE Retrieved([NoResponse EXCEPT !.status = status, !.body = body,
                                            !.wellformed = wf])
    /\ UNCHANGED <<fn, file_url, file_format, kwargs, worksheet, resource,
                   parser, decodes, tagExamined>>

\* credentials, client, get_bucket, get_blob, download_as_string
StorageFetch ==
    /\ pc = "retrieve"
    /\ fn = "read_file_from_gcloud_storage"
    /\ retrievals' = retrievals + 1
    /\ \E status \in {"ok", "rejected"}, body \in Payloads, wf \in BOOLEAN :
          IF status = "rejected"
          THEN Failed([NoResponse EXCEPT !.status = status], "GoogleAPIError")
          ELSE Retrieved([NoResponse EXCEPT !.status = status, !.body = body,
                                            !.wellformed = wf])
    /\ UNCHANGED <<fn, file_url, file_format, kwargs, worksheet, resource,
                   parser, decodes, tagExamined>>

\* gspread.service_account, open_by_key, get_worksheet, get_all_values.
\* response.nsheets and response.rows describe the remote spreadsheet: how
\* many worksheets it has and the rows of the one the argument denotes.
SheetsFetch ==
    /\ pc = "retrieve"
    /\ fn = "read_private_sheets"
    /\ retrievals' = retrievals + 1
    /\ \E status \in {"ok", "rejected"}, n \in 1..MaxSheets, rows \in SheetRows :
          LET ws == GetWorksheet(worksheet, n)
              remote == [NoResponse EXCEPT !.nsheets = n, !.rows = rows]
          IN  IF status = "rejected"
              THEN Failed([NoResponse EXCEPT !.status = status], "APIError")
              ELSE IF ~ws.ok
              THEN Failed([remote EXCEPT !.status = "no_worksheet"], ws.exc)
              ELSE Retrieved([remote EXCEPT !.status = status,
                                            !.selected = ws.index])
    /\ UNCHANGED <<fn, file_url, file_format, kwargs, worksheet, resource,
                   parser, decodes, tagExamined>>

\* the end of a call: the parser call made, the outcome, the call count
Finish(o, examined) ==
    /\ parser' = o.parser
    /\ result' = o.result
    /\ decodes' = decodes + o.decodes
    /\ tagExamined' = examined
    /\ pc' = "done"
    /\ UNCHANGED <<fn, file_url, file_format, kwargs, worksheet, resource,
                   response, retrievals>>

\* pd.read_csv(BytesIO(response.content))
Decode_read_public_sheets ==
    /\ pc = "decode"
    /\ fn = "read_public_sheets"
    /\ Finish(Run(ParserCall("pd.read_csv", "bytes", response.body, {}),
                  response.wellformed), FALSE)

Decode_read_public_file_from_gdrive ==
    /\ pc = "decode"
    /\ fn = "read_public_file_from_gdrive"
    /\ Finish(Dispatch_read_public_file_from_gdrive(file_format, response, kwargs),
              TRUE)

Decode_read_private_sheets ==
    /\ pc = "decode"
    /\ fn = "read_private_sheets"
    /\ Finish(Out(ParserCall("pd.DataFrame", "rows", <<>>, {}),
                  RowsToFrame(response.rows), 1), FALSE)

Decode_read_private_file_from_gdrive ==
    /\ pc = "decode"
    /\ fn = "read_private_file_from_gdrive"
    /\ Finish(Dispatch_read_private_file_from_gdrive(file_format, response, kwargs),
              TRUE)

Decode_read_file_from_gcloud_storage ==
    /\ pc = "decode"
    /\ fn = "read_file_from_gcloud_storage"
    /\ Finish(Dispatch_read_file_from_gcloud_storage(file_format, response, kwargs),
              TRUE)

\* the call is over; nothing of it is kept for the next one
Return ==
    /\ pc = "done"
    /\ pc' = "idle"
    /\ fn' = "none"
    /\ file_url' = <<>>
    /\ file_format' = "none"
    /\ kwargs' = {}
    /\ worksheet' = NoWorksheet
    /\ resource' = NoResource
    /\ response' = NoResponse
    /\ parser' = NoParser
    /\ result' = Pending
    /\ retrievals' = 0
    /\ decodes' = 0
    /\ tagExamined' = FALSE

Next ==
    \/ Call_read_public_sheets
    \/ Call_read_public_file_from_gdrive
    \/ Call_read_private_sheets
    \/ Call_read_private_file_from_gdrive
    \/ Call_read_file_from_gcloud_storage
    \/ HttpGet
    \/ DriveFetch
    \/ StorageFetch
    \/ SheetsFetch
    \/ Decode_read_public_sheets
    \/ Decode_read_public_file_from_gdrive
    \/ Decode_read_private_sheets
    \/ Decode_read_private_file_from_gdrive
    \/ Decode_read_file_from_gcloud_storage
    \/ Return

Spec == Init /\ [][Next]_vars

----------------------------------------------------------------------------
(* Vocabulary of the properties *)

Done == pc = "done"

\* the retrieval step obtained the artifact it asked for
RetrievalSucceeded == retrievals = 1 /\ response.status = "ok"

\* the retrieval step met a network or service failure
RetrievalFailed ==
    response.status \in {"unreachable", "http_error", "rejected"}

Utf8(b) == Decode(b, "utf-8", "strict").ok

\* id is the second-to-last "/"-delimited segment of url: it ends right
\* before the last "/" and starts right after the one before (or at the start)
IsSecondToLast(id, url) ==
    \E j \in 1..Len(url) :
        /\ url[j] = "/"
        /\ \A k \in (j + 1)..Len(url) : url[k] # "/"
        /\ \E i \in 0..(j - 1) :
              /\ i = 0 \/ url[i] = "/"
              /\ \A k \in (i + 1)..(j - 1) : url[k] # "/"
              /\ id = SubSeq(url, i + 1, j - 1)

KindOf(fmt) ==
    CASE fmt \in {"csv", "xlsx", "parquet"} -> "frame"
      [] fmt = "json" -> "mapping"
      [] fmt = "txt" -> "str"
      [] OTHER -> "None"

DecodersOf(fmt) ==
    CASE fmt = "csv" -> {"pd.read_csv"}
      [] fmt = "xlsx" -> {"pd.read_excel"}
      [] fmt = "parquet" -> {"pd.read_parquet"}
      [] fmt = "json" -> {"json.load", "json_util.loads"}
      [] fmt = "txt" -> {"bytes.decode"}
      [] OTHER -> {}

----------------------------------------------------------------------------
C2_DecoderAndKindByTag ==
    (Done /\ fn \in Dispatching /\ RetrievalSucceeded
          /\ file_format \in Branches(fn)
          /\ response.wellformed /\ Utf8(response.body) /\ kwargs = {})
        => /\ decodes = 1
           /\ parser.name \in DecodersOf(file_format)
           /\ result.kind = KindOf(file_format)

(* C3: read_file_from_gcloud_storage returns an object, never None, for    *)
(* each of the five tags its docstring lists, given a successful retrieval *)
(* of a valid payload.                                                     *)
C3_GcloudDocstringTags ==
    (Done /\ fn = "read_file_from_gcloud_storage" /\ RetrievalSucceeded
          /\ file_format \in {"csv", "xlsx", "parquet", "json", "txt"}
          /\ response.wellformed /\ Utf8(response.body) /\ kwargs = {})
        => result.kind \in {"frame", "mapping", "str"}

(* C4 as stated: all four URL-taking functions retrieve by the             *)
(* second-to-last segment of the URL, not by the URL itself.               *)
C4_AllFourRetrieveById ==
    (fn \in {"read_public_sheets", "read_public_file_from_gdrive",
             "read_private_sheets", "read_private_file_from_gdrive"}
       /\ retrievals >= 1)
        => /\ resource.by = "id"
           /\ IsSecondToLast(resource.key, file_url)

(* C4 amended: read_public_file_from_gdrive, read_private_sheets and       *)
(* read_private_file_from_gdrive retrieve by the second-to-last segment of *)
(* the URL (ABC123 for the example URL); read_public_sheets requests the   *)
(* caller's URL as given.                                                  *)
C4_RetrieveByIdExceptPublicSheets ==
    /\ (fn \in {"read_public_file_from_gdrive", "read_private_sheets",
                "read_private_file_from_gdrive"} /\ retrievals >= 1)
          => /\ resource.by = "id"
             /\ IsSecondToLast(resource.key, file_url)
             /\ file_url = ExampleUrl => resource.key = ExampleId
    /\ (fn = "read_public_sheets" /\ retrievals >= 1)
          => resource = [by |-> "url", key |-> file_url]

C4_Witness ==
    /\ fn = "read_private_sheets"
    /\ retrievals = 1
    /\ file_url = ExampleUrl
    /\ resource = [by |-> "id", key |-> ExampleId]

(* C5: for tag txt in read_private_file_from_gdrive and                    *)
(* read_file_from_gcloud_storage the bytes are decoded with UTF-8, or with *)
(* the encoding and error policy the caller passes, and the call returns   *)
(* the string those give.                                                  *)
C5_TxtCallerEncodingAndErrors ==
    (Done /\ fn \in {"read_private_file_from_gdrive",
                     "read_file_from_gcloud_storage"}
          /\ file_format = "txt" /\ RetrievalSucceeded
          /\ Keys(kwargs) \subseteq {"encoding", "errors"})
        => LET d == Decode(response.body, Get(kwargs, "encoding", "utf-8"),
                           Get(kwargs, "errors", "strict"))
           IN  d.ok => result = Str(d.text)

(* C6: a network or service failure during retrieval (unreachable host,   *)
(* HTTP error status, rejection) ends the call with a raise; no parser is *)
(* run on the response.                                                   *)
C6_FailureNeverDecoded ==
    (Done /\ RetrievalFailed)
        => (result.kind = "raise" /\ decodes = 0 /\ parser = NoParser)

(* C7: whenever a dispatching function runs a parser, the parser receives *)
(* exactly the caller's options.                                          *)
C7_OptionsForwardedVerbatim ==
    (fn \in Dispatching /\ decodes = 1) => parser.options = kwargs

(* C8: read_private_sheets reads the worksheet its argument denotes, by   *)
(* index or by name, and returns its first row as columns and the other   *)
(* rows, in order, as data.                                               *)
C8_WorksheetByIndexOrName ==
    (Done /\ fn = "read_private_sheets"
          /\ response.status \in {"ok", "no_worksheet"}
          /\ worksheet.i < response.nsheets
          /\ Len(response.rows) >= 1)
        => /\ result.kind = "frame"
           /\ response.selected = worksheet.i
           /\ result.columns = response.rows[1]
           /\ result.rows = Tail(response.rows)
           /\ Len(result.rows) = Len(response.rows) - 1

(* C9: in a dispatching call that gets as far as retrieval, retrieval is  *)
(* attempted exactly once and is complete before the tag is examined; a   *)
(* parser runs at most once and only after a successful retrieval; a      *)
(* failed retrieval is followed by no decode step.                        *)
C9_RetrieveOnceThenDecode ==
    fn \in Dispatching
        => /\ retrievals <= 1
           /\ decodes <= 1
           /\ (Done /\ resource # NoResource) => retrievals = 1
           /\ tagExamined => retrievals = 1
           /\ decodes = 1 => RetrievalSucceeded
           /\ RetrievalFailed => (decodes = 0 /\ ~tagExamined)

(* C10: pd.read_excel is handed the retrieved payload as the original     *)
(* bytes.                                                                 *)
C10_XlsxParserGetsOriginalBytes ==
    parser.name = "pd.read_excel"
        => (parser.form = "bytes" /\ parser.data = response.body)

====
